---- MODULE Spec2Model ----
(***************************************************************************)
(* Vehicle-Booking backend: the booking store and the request handlers of  *)
(* backend/src/routes/bookings.ts (owner routes) and                        *)
(* backend/src/routes/admin.ts (administrator routes).                      *)
(*                                                                          *)
(* Instants are integers (milliseconds since the epoch, scaled down).       *)
(* A handler that runs to completion without another request interleaving   *)
(* is one action (Spec, SpecOwner); SpecConc splits the owner handlers at   *)
(* their awaits.                                                            *)
(***************************************************************************)
EXTENDS Integers, FiniteSets, Sequences, TLC

\* ---------------------------------------------------------------- bounds
\* Instants range over 0..MaxTime; the clock stops at MaxTime.
MaxTime == 2
\* Number of booking ids the store ever hands out.
MaxBookings == 2

\* Number of requests that can be suspended at an await at once (SpecConc).
MaxInflight == 2

Times == 0 .. MaxTime
BookingIds == 1 .. MaxBookings
Slots == 1 .. MaxInflight

\* ------------------------------------------------------------ principals
Users == {"alice", "demo"}

Email(u) == u \o "@example.com"

\* admin.ts:9
ADMIN_EMAILS == {"admin@example.com", "demo@example.com"}

VehicleIds == {"v1", "v2"}

\* A request field that is not supplied (undefined in the request body):
\* a vehicle id, and an instant.
Absent == "absent"

NoTime == -1

\* No booking id (the optional excludeBookingId left out).
NoId == 0

VARIABLES
    bookings,   \* the Booking table: a set of rows, ids unique
    vehicles,   \* ids of the rows of the Vehicle table
    deactivated, \* ids of the Vehicle rows with isActive = false
    users,      \* ids of the seeded rows of the User table
    signedUp,   \* emails of the User rows created by signup, in order
    now,        \* the wall clock (new Date())
    nextId,     \* next fresh booking id
    resp,       \* the last response sent: route and outcome
    inflight,   \* SpecConc: requests suspended at an await
    auth,       \* browser: localStorage token and the AuthProvider state
    calls,      \* browser: AuthContext functions suspended at an await
    modal       \* browser: the BookingModal state and its pending submit

\* The variables of the browser client, and those of the server.
clientVars == <<auth, calls, modal>>

serverVars == <<bookings, vehicles, deactivated, users, signedUp, now, nextId,
                resp, inflight>>

vars == <<bookings, vehicles, deactivated, users, signedUp, now, nextId,
          resp, inflight, auth, calls, modal>>

\* ------------------------------------------------------------- the store
Booking(id, userId, vehicleId, startTime, endTime) ==
    [id |-> id, userId |-> userId, vehicleId |-> vehicleId,
     startTime |-> startTime, endTime |-> endTime]

\* prisma.booking.findUnique({ where: { id } }): the rows with that id
\* (none or one).
findUnique(id) == {b \in bookings : b.id = id}

\* A write that would store vehicleId without a Vehicle row of that id.
ForeignKeyVehicleUnchecked(v) == TRUE

\* The foreign key Booking.vehicleId -> Vehicle.id the database enforces on
\* every insert and update of a Booking row.
ForeignKeyVehicle(v) == v \in vehicles

\* ------------------------------------------------- checkBookingConflict
\* ConflictWhere without the exclusion of the booking being edited.
ConflictWhereNoExclude(b, vehicleId, startTime, endTime, excludeBookingId) ==
    /\ b.vehicleId = vehicleId
    /\ \/ (b.startTime <= startTime /\ b.endTime > startTime)
       \/ (b.startTime < endTime /\ b.endTime >= endTime)
       \/ (b.startTime >= startTime /\ b.endTime <= endTime)

\* ConflictWhere with only the second OR branch: a check that looks only at
\* whether the new booking ends during an existing one.
ConflictWhereEndsDuring(b, vehicleId, startTime, endTime, excludeBookingId) ==
    /\ b.vehicleId = vehicleId
    /\ (excludeBookingId # NoId => b.id # excludeBookingId)
    /\ b.startTime < endTime
    /\ b.endTime >= endTime

\* ConflictWhere with only the first OR branch: a check that looks only at
\* whether the new booking starts during an existing one.
ConflictWhereStartsDuring(b, vehicleId, startTime, endTime, excludeBookingId) ==
    /\ b.vehicleId = vehicleId
    /\ (excludeBookingId # NoId => b.id # excludeBookingId)
    /\ b.startTime <= startTime
    /\ b.endTime > startTime

\* The where clause of checkBookingConflict, as a predicate on one row.
ConflictWhere(b, vehicleId, startTime, endTime, excludeBookingId) ==
    /\ b.vehicleId = vehicleId
    /\ (excludeBookingId # NoId => b.id # excludeBookingId)
    /\ \/ (b.startTime <= startTime /\ b.endTime > startTime)
       \/ (b.startTime < endTime /\ b.endTime >= endTime)
       \/ (b.startTime >= startTime /\ b.endTime <= endTime)

checkBookingConflict(vehicleId, startTime, endTime, excludeBookingId) ==
    \E b \in bookings :
        ConflictWhere(b, vehicleId, startTime, endTime, excludeBookingId)

\* The where clause of the administrator route's conflict query.
AdminConflictWhere(b, id, vehicleId, startTime, endTime) ==
    /\ b.id # id
    /\ b.vehicleId = vehicleId
    /\ b.startTime < endTime
    /\ b.endTime > startTime

\* requireAdmin that lets every signed-in requester through.
requireAdminAnyone(u) == TRUE

\* requireAdmin: the requester is on the allow-list.
requireAdmin(u) == Email(u) \in ADMIN_EMAILS

\* ------------------------------------------------------- request bodies
\* Bodies accepted by bookingValidation, and one body it refuses.
Body(vehicleId, startTime, endTime) ==
    [wellTyped |-> TRUE, vehicleId |-> vehicleId,
     startTime |-> startTime, endTime |-> endTime]

MalformedBody ==
    [wellTyped |-> FALSE, vehicleId |-> Absent, startTime |-> 0, endTime |-> 0]

BookingBodies ==
    {Body(v, s, e) : v \in VehicleIds, s \in Times, e \in Times}
        \cup {MalformedBody}

\* Bodies of the administrator's booking update: every field optional.
AdminBodies ==
    [vehicleId : VehicleIds \cup {Absent},
     startTime : Times \cup {NoTime},
     endTime   : Times \cup {NoTime}]

\* ------------------------------------------- owner routes, as decisions
\* PostOutcome with the past check refusing a start equal to the clock.
PostOutcomePastInclusive(u, body) ==
    IF ~body.wellTyped THEN "ValidationError"
    ELSE IF body.endTime <= body.startTime THEN "InvalidInterval"
    ELSE IF body.startTime <= now THEN "PastBooking"
    ELSE IF body.vehicleId \notin vehicles THEN "VehicleNotFound"
    ELSE IF checkBookingConflict(body.vehicleId, body.startTime,
                                 body.endTime, NoId) THEN "Conflict"
    ELSE "Admitted"

\* PostOutcome that skips the conflict check for an administrator.
PostOutcomeAdminBypass(u, body) ==
    IF ~body.wellTyped THEN "ValidationError"
    ELSE IF body.endTime <= body.startTime THEN "InvalidInterval"
    ELSE IF body.startTime < now THEN "PastBooking"
    ELSE IF body.vehicleId \notin vehicles THEN "VehicleNotFound"
    ELSE IF /\ ~requireAdmin(u)
            /\ checkBookingConflict(body.vehicleId, body.startTime,
                                    body.endTime, NoId) THEN "Conflict"
    ELSE "Admitted"

\* PostOutcome with the past check moved before the interval check.
PostOutcomePastFirst(u, body) ==
    IF ~body.wellTyped THEN "ValidationError"
    ELSE IF body.startTime < now THEN "PastBooking"
    ELSE IF body.endTime <= body.startTime THEN "InvalidInterval"
    ELSE IF body.vehicleId \notin vehicles THEN "VehicleNotFound"
    ELSE IF checkBookingConflict(body.vehicleId, body.startTime,
                                 body.endTime, NoId) THEN "Conflict"
    ELSE "Admitted"

\* POST /api/bookings: the handler's outcome in the current state.
PostOutcome(u, body) ==
    IF ~body.wellTyped THEN "ValidationError"
    ELSE IF body.endTime <= body.startTime THEN "InvalidInterval"
    ELSE IF body.startTime < now THEN "PastBooking"
    ELSE IF body.vehicleId \notin vehicles THEN "VehicleNotFound"
    ELSE IF checkBookingConflict(body.vehicleId, body.startTime,
                                 body.endTime, NoId) THEN "Conflict"
    ELSE "Admitted"

\* PutOutcome with the ownership check moved after the temporal checks.
PutOutcomeGateLast(u, id, body) ==
    IF ~body.wellTyped THEN "ValidationError"
    ELSE IF findUnique(id) = {} THEN "NotFound"
    ELSE IF body.endTime <= body.startTime THEN "InvalidInterval"
    ELSE IF body.startTime < now THEN "PastBooking"
    ELSE IF body.vehicleId \notin vehicles THEN "VehicleNotFound"
    ELSE IF checkBookingConflict(body.vehicleId, body.startTime,
                                 body.endTime, id) THEN "Conflict"
    ELSE IF (CHOOSE b \in findUnique(id) : TRUE).userId # u THEN "Forbidden"
    ELSE "Admitted"

\* PutOutcome with an administrator let through the ownership check.
PutOutcomeAdminOverride(u, id, body) ==
    IF ~body.wellTyped THEN "ValidationError"
    ELSE IF findUnique(id) = {} THEN "NotFound"
    ELSE IF /\ (CHOOSE b \in findUnique(id) : TRUE).userId # u
            /\ ~requireAdmin(u) THEN "Forbidden"
    ELSE IF body.endTime <= body.startTime THEN "InvalidInterval"
    ELSE IF body.startTime < now THEN "PastBooking"
    ELSE IF body.vehicleId \notin vehicles THEN "VehicleNotFound"
    ELSE IF checkBookingConflict(body.vehicleId, body.startTime,
                                 body.endTime, id) THEN "Conflict"
    ELSE "Admitted"

\* PUT /api/bookings/:id
PutOutcome(u, id, body) ==
    IF ~body.wellTyped THEN "ValidationError"
    ELSE IF findUnique(id) = {} THEN "NotFound"
    ELSE IF (CHOOSE b \in findUnique(id) : TRUE).userId # u THEN "Forbidden"
    ELSE IF body.endTime <= body.startTime THEN "InvalidInterval"
    ELSE IF body.startTime < now THEN "PastBooking"
    ELSE IF body.vehicleId \notin vehicles THEN "VehicleNotFound"
    ELSE IF checkBookingConflict(body.vehicleId, body.startTime,
                                 body.endTime, id) THEN "Conflict"
    ELSE "Admitted"

\* DeleteOutcome without the ownership check.
DeleteOutcomeNoGate(u, id) ==
    IF findUnique(id) = {} THEN "NotFound"
    ELSE "Admitted"

\* DELETE /api/bookings/:id
DeleteOutcome(u, id) ==
    IF findUnique(id) = {} THEN "NotFound"
    ELSE IF (CHOOSE b \in findUnique(id) : TRUE).userId # u THEN "Forbidden"
    ELSE "Admitted"

\* ------------------------------------ administrator routes, as decisions
\* The row prisma.booking.update writes for the administrator's body.
AdminUpdated(b, body) ==
    [b EXCEPT
        !.vehicleId = IF body.vehicleId # Absent THEN body.vehicleId ELSE @,
        !.startTime = IF body.startTime # NoTime THEN body.startTime ELSE @,
        !.endTime   = IF body.endTime # NoTime THEN body.endTime ELSE @]

\* PUT /api/admin/bookings/:id
AdminPutOutcome(u, id, body) ==
    IF ~requireAdmin(u) THEN "Forbidden"
    ELSE IF /\ body.vehicleId # Absent
            /\ body.startTime # NoTime
            /\ body.endTime # NoTime
            /\ \E b \in bookings :
                   AdminConflictWhere(b, id, body.vehicleId,
                                      body.startTime, body.endTime)
         THEN "Conflict"
    ELSE IF findUnique(id) = {} THEN "ServerError"
    ELSE IF body.vehicleId # Absent /\ ~ForeignKeyVehicle(body.vehicleId)
         THEN "ServerError"
    ELSE "Admitted"

\* DELETE /api/admin/bookings/:id
AdminDeleteOutcome(u, id) ==
    IF ~requireAdmin(u) THEN "Forbidden"
    ELSE IF findUnique(id) = {} THEN "ServerError"
    ELSE "Admitted"

\* ------------------------------------------------------------- responses
Resp(op, kind) == [op |-> op, kind |-> kind]

\* A handler suspended at an await: its request and where it resumes.
Req(pc, user, id, body) ==
    [pc |-> pc, user |-> user, id |-> id, vehicleId |-> body.vehicleId,
     startTime |-> body.startTime, endTime |-> body.endTime]

IdleReq == Req("idle", "none", NoId, MalformedBody)

\* ---------------------------------------------------------------- Init
\* ------------------------------------------------------- browser client
\* localStorage without a 'token' item, and the user state null.
NoToken == "none"

NoUser == "none"

\* The people at the browser: the seeded users, and carol, who has no
\* account until she signs up.
Accounts == Users \cup {"carol"}

\* An AuthContext function suspended at an await: the function, the API
\* call it waits for, the account of the credentials it was called with,
\* and the bearer token the request carries.
Call(fn, pc, cred, tok) == [fn |-> fn, pc |-> pc, cred |-> cred, tok |-> tok]

IdleCall == Call("none", "idle", NoUser, NoToken)

\* new Date('') and new Date of an incomplete input: the Invalid Date, whose
\* time value is NaN.
InvalidDate == NoTime

\* The select's placeholder option: no vehicle chosen.
NoVehicle == ""

NoError == "null"

\* The form fields a submit reads, with the instant of the submit.
FormData(vehicleId, startTime, endTime, at) ==
    [vehicleId |-> vehicleId, startTime |-> startTime, endTime |-> endTime,
     at |-> at]

\* useState initial values of AuthProvider, and an empty localStorage.
InitAuth ==
    [token |-> NoToken, user |-> NoUser, isAdmin |-> FALSE,
     isLoading |-> TRUE]

\* useState initial values of BookingModal, closed; nothing submitted yet.
InitModal ==
    [isOpen |-> FALSE, vehicleId |-> NoVehicle, startTime |-> InvalidDate,
     endTime |-> InvalidDate, isSubmitting |-> FALSE, error |-> NoError,
     pending |-> FALSE,
     sent |-> FormData(NoVehicle, InvalidDate, InvalidDate, 0)]

Init ==
    /\ bookings = {}
    /\ vehicles = VehicleIds \ {"v2"}
    /\ deactivated = {}
    /\ users = Users
    /\ signedUp = <<>>
    /\ now = 0
    /\ nextId = 1
    /\ resp = Resp("none", "none")
    /\ inflight = [k \in Slots |-> IdleReq]
    /\ auth = InitAuth
    /\ calls = [c \in Slots |-> IdleCall]
    /\ modal = InitModal

\* ------------------------------------------------------------- actions
\* The clock advances.
Tick ==
    /\ now < MaxTime
    /\ now' = now + 1
    /\ UNCHANGED clientVars
    /\ UNCHANGED <<bookings, vehicles, deactivated, users, signedUp, nextId,
                   resp, inflight>>

\* POST /api/bookings, run to completion.
PostBooking(u, body) ==
    /\ u \in users
    /\ LET kind == PostOutcome(u, body) IN
       /\ kind = "Admitted" => nextId <= MaxBookings
       /\ resp' = Resp("create", kind)
       /\ IF kind = "Admitted"
          THEN /\ bookings' = bookings \cup
                     {Booking(nextId, u, body.vehicleId,
                              body.startTime, body.endTime)}
               /\ nextId' = nextId + 1
          ELSE UNCHANGED <<bookings, nextId>>
    /\ UNCHANGED clientVars
    /\ UNCHANGED <<vehicles, deactivated, users, signedUp, now, inflight>>

\* PutBooking that writes the row before the handler has decided.
PutBookingWriteFirst(u, id, body) ==
    /\ u \in users
    /\ resp' = Resp("update", PutOutcome(u, id, body))
    /\ bookings' = (bookings \ findUnique(id)) \cup
           {[b EXCEPT !.vehicleId = body.vehicleId,
                      !.startTime = body.startTime,
                      !.endTime = body.endTime] : b \in findUnique(id)}
    /\ UNCHANGED clientVars
    /\ UNCHANGED <<vehicles, deactivated, users, signedUp, now, nextId,
                   inflight>>

\* PUT /api/bookings/:id, run to completion.
PutBooking(u, id, body) ==
    /\ u \in users
    /\ LET kind == PutOutcome(u, id, body) IN
       /\ resp' = Resp("update", kind)
       /\ IF kind = "Admitted"
          THEN bookings' = (bookings \ findUnique(id)) \cup
                   {[b EXCEPT !.vehicleId = body.vehicleId,
                              !.startTime = body.startTime,
                              !.endTime = body.endTime] : b \in findUnique(id)}
          ELSE UNCHANGED bookings
    /\ UNCHANGED clientVars
    /\ UNCHANGED <<vehicles, deactivated, users, signedUp, now, nextId,
                   inflight>>

\* DELETE /api/bookings/:id, run to completion.
DeleteBooking(u, id) ==
    /\ u \in users
    /\ LET kind == DeleteOutcome(u, id) IN
       /\ resp' = Resp("delete", kind)
       /\ IF kind = "Admitted"
          THEN bookings' = bookings \ findUnique(id)
          ELSE UNCHANGED bookings
    /\ UNCHANGED clientVars
    /\ UNCHANGED <<vehicles, deactivated, users, signedUp, now, nextId,
                   inflight>>

\* router.use(requireAdmin) answers a requester who is not on the allow-list
\* before any handler of the administrator routes runs.
AdminDenied(u, op) ==
    /\ u \in users
    /\ ~requireAdmin(u)
    /\ resp' = Resp(op, "Forbidden")
    /\ UNCHANGED clientVars
    /\ UNCHANGED <<bookings, vehicles, deactivated, users, signedUp, now,
                   nextId, inflight>>

\* PUT /api/admin/bookings/:id
AdminPutBooking(u, id, body) ==
    /\ u \in users
    /\ requireAdmin(u)
    /\ LET kind == AdminPutOutcome(u, id, body) IN
       /\ resp' = Resp("adminUpdate", kind)
       /\ IF kind = "Admitted"
          THEN bookings' = (bookings \ findUnique(id)) \cup
                   {AdminUpdated(b, body) : b \in findUnique(id)}
          ELSE UNCHANGED bookings
    /\ UNCHANGED clientVars
    /\ UNCHANGED <<vehicles, deactivated, users, signedUp, now, nextId,
                   inflight>>

\* DELETE /api/admin/bookings/:id
AdminDeleteBooking(u, id) ==
    /\ u \in users
    /\ requireAdmin(u)
    /\ LET kind == AdminDeleteOutcome(u, id) IN
       /\ resp' = Resp("adminDelete", kind)
       /\ IF kind = "Admitted"
          THEN bookings' = bookings \ findUnique(id)
          ELSE UNCHANGED bookings
    /\ UNCHANGED clientVars
    /\ UNCHANGED <<vehicles, deactivated, users, signedUp, now, nextId,
                   inflight>>

\* ------------------------------------------------- GET /api/bookings/my
\* findMany({ where: { userId } }): the caller's bookings.
MyBookings(u) == {b \in bookings : b.userId = u}

\* The 'upcoming' list of the response, as a set.
MyUpcoming(u) == {b \in MyBookings(u) : b.endTime >= now}

\* MyPast that also takes a booking ending at the current instant.
MyPastInclusive(u) == {b \in MyBookings(u) : b.endTime <= now}

\* The 'past' list of the response, as a set.
MyPast(u) == {b \in MyBookings(u) : b.endTime < now}

\* ------------------------------------------- administrator: fleet, users
\* prisma.booking.count({ where: { vehicleId: id } })
bookingCount(v) == Cardinality({b \in bookings : b.vehicleId = v})

\* PUT /api/admin/vehicles/:id with isActive supplied; a vehicle that is not
\* in the table makes prisma.vehicle.update throw, answered with 500.
AdminPutVehicleOutcome(u, v) ==
    IF ~requireAdmin(u) THEN "Forbidden"
    ELSE IF v \notin vehicles THEN "ServerError"
    ELSE "Admitted"

\* AdminDeleteVehicleOutcome without the booking count.
AdminDeleteVehicleOutcomeNoCount(u, v) ==
    IF ~requireAdmin(u) THEN "Forbidden"
    ELSE IF v \notin vehicles THEN "ServerError"
    ELSE "Admitted"

\* DELETE /api/admin/vehicles/:id
AdminDeleteVehicleOutcome(u, v) ==
    IF ~requireAdmin(u) THEN "Forbidden"
    ELSE IF bookingCount(v) > 0 THEN "HasBookings"
    ELSE IF v \notin vehicles THEN "ServerError"
    ELSE "Admitted"

\* AdminDeleteUserOutcome without the comparison of target and requester.
AdminDeleteUserOutcomeNoSelfCheck(u, target) ==
    IF ~requireAdmin(u) THEN "Forbidden"
    ELSE IF target \notin users THEN "ServerError"
    ELSE "Admitted"

\* DELETE /api/admin/users/:id
AdminDeleteUserOutcome(u, target) ==
    IF ~requireAdmin(u) THEN "Forbidden"
    ELSE IF u = target THEN "SelfDelete"
    ELSE IF target \notin users THEN "ServerError"
    ELSE "Admitted"

\* CascadeUser that leaves the deleted user's bookings in place.
CascadeUserNone(target) == bookings

\* The Booking rows left once the database has removed user target's row:
\* the relation Booking.user deletes the user's bookings with the user.
CascadeUser(target) == {b \in bookings : b.userId # target}

\* CleanupWhere that also matches a booking ending at the current instant.
CleanupWhereInclusive(b) == b.endTime <= now

\* The where clause of the cleanup's deleteMany: endTime lt new Date().
CleanupWhere(b) == b.endTime < now

AdminPutVehicle(u, v, isActive) ==
    /\ u \in users
    /\ requireAdmin(u)
    /\ LET kind == AdminPutVehicleOutcome(u, v) IN
       /\ resp' = Resp("vehicleUpdate", kind)
       /\ IF kind = "Admitted"
          THEN deactivated' = IF isActive THEN deactivated \ {v}
                              ELSE deactivated \cup {v}
          ELSE UNCHANGED deactivated
    /\ UNCHANGED clientVars
    /\ UNCHANGED <<bookings, vehicles, users, signedUp, now, nextId, inflight>>

AdminDeleteVehicle(u, v) ==
    /\ u \in users
    /\ requireAdmin(u)
    /\ LET kind == AdminDeleteVehicleOutcome(u, v) IN
       /\ resp' = Resp("vehicleDelete", kind)
       /\ IF kind = "Admitted"
          THEN /\ vehicles' = vehicles \ {v}
               /\ deactivated' = deactivated \ {v}
          ELSE UNCHANGED <<vehicles, deactivated>>
    /\ UNCHANGED clientVars
    /\ UNCHANGED <<bookings, users, signedUp, now, nextId, inflight>>

AdminDeleteUser(u, target) ==
    /\ u \in users
    /\ requireAdmin(u)
    /\ LET kind == AdminDeleteUserOutcome(u, target) IN
       /\ resp' = Resp("userDelete", kind)
       /\ IF kind = "Admitted"
          THEN /\ users' = users \ {target}
               /\ bookings' = CascadeUser(target)
          ELSE UNCHANGED <<users, bookings>>
    /\ UNCHANGED clientVars
    /\ UNCHANGED <<vehicles, deactivated, signedUp, now, nextId, inflight>>

\* POST /api/admin/bookings/bulk-delete: ids is the set of the array's
\* elements; an empty array is answered with 400.
AdminBulkDelete(u, ids) ==
    /\ u \in users
    /\ requireAdmin(u)
    /\ IF ids = {}
       THEN /\ resp' = Resp("bulkDelete", "BadRequest")
            /\ UNCHANGED bookings
       ELSE /\ resp' = Resp("bulkDelete", "Admitted")
            /\ bookings' = {b \in bookings : b.id \notin ids}
    /\ UNCHANGED clientVars
    /\ UNCHANGED <<vehicles, deactivated, users, signedUp, now, nextId,
                   inflight>>

\* DELETE /api/admin/bookings/cleanup/past
AdminCleanupPast(u) ==
    /\ u \in users
    /\ requireAdmin(u)
    /\ bookings' = {b \in bookings : ~CleanupWhere(b)}
    /\ resp' = Resp("cleanup", "Admitted")
    /\ UNCHANGED clientVars
    /\ UNCHANGED <<vehicles, deactivated, users, signedUp, now, nextId,
                   inflight>>

\* ------------------------------------------- owner handlers, await by await
\* Requests the interleaved handlers are driven with: bodies that pass
\* bookingValidation and the interval check, for a vehicle of the table.
ConcBodies ==
    {b \in BookingBodies :
        b.wellTyped /\ b.endTime > b.startTime /\ b.vehicleId = "v1"}

\* The session that slot k serves: one signed-in user per connection.
Client(k) == IF k = 1 THEN "alice" ELSE "demo"

Suspend(k, r) == inflight' = [inflight EXCEPT ![k] = r]

Finish(k, op, kind) ==
    /\ inflight' = [inflight EXCEPT ![k] = IdleReq]
    /\ resp' = Resp(op, kind)

\* POST /api/bookings up to its first await (bookings.ts:212-235): the
\* interval and past checks run before the handler first yields.
PostStart(k, u, body) ==
    /\ inflight[k].pc = "idle"
    /\ u \in users
    /\ IF \/ ~body.wellTyped
          \/ body.endTime <= body.startTime
          \/ body.startTime < now
       THEN Finish(k, "create", PostOutcome(u, body))
       ELSE Suspend(k, Req("post.vehicle", u, NoId, body)) /\ UNCHANGED resp
    /\ UNCHANGED clientVars
    /\ UNCHANGED <<bookings, vehicles, deactivated, users, signedUp, now,
                   nextId>>

\* await prisma.vehicle.findUnique resolves (bookings.ts:235-244).
PostVehicle(k) ==
    /\ inflight[k].pc = "post.vehicle"
    /\ IF inflight[k].vehicleId \notin vehicles
       THEN Finish(k, "create", "VehicleNotFound")
       ELSE Suspend(k, [inflight[k] EXCEPT !.pc = "post.conflict"])
                /\ UNCHANGED resp
    /\ UNCHANGED clientVars
    /\ UNCHANGED <<bookings, vehicles, deactivated, users, signedUp, now,
                   nextId>>

\* await checkBookingConflict resolves (bookings.ts:244-253).
PostConflict(k) ==
    /\ inflight[k].pc = "post.conflict"
    /\ IF checkBookingConflict(inflight[k].vehicleId, inflight[k].startTime,
                               inflight[k].endTime, NoId)
       THEN Finish(k, "create", "Conflict")
       ELSE Suspend(k, [inflight[k] EXCEPT !.pc = "post.create"])
                /\ UNCHANGED resp
    /\ UNCHANGED clientVars
    /\ UNCHANGED <<bookings, vehicles, deactivated, users, signedUp, now,
                   nextId>>

\* await prisma.booking.create resolves (bookings.ts:253-284); an insert the
\* foreign key refuses makes it throw, which the error handler answers
\* with 500.
PostCreate(k) ==
    /\ inflight[k].pc = "post.create"
    /\ IF ~ForeignKeyVehicle(inflight[k].vehicleId)
       THEN Finish(k, "create", "ServerError") /\ UNCHANGED <<bookings, nextId>>
       ELSE /\ nextId <= MaxBookings
            /\ bookings' = bookings \cup
                   {Booking(nextId, inflight[k].user, inflight[k].vehicleId,
                            inflight[k].startTime, inflight[k].endTime)}
            /\ nextId' = nextId + 1
            /\ Finish(k, "create", "Admitted")
    /\ UNCHANGED clientVars
    /\ UNCHANGED <<vehicles, deactivated, users, signedUp, now>>

\* PUT /api/bookings/:id up to its first await (bookings.ts:297-309).
PutStart(k, u, id, body) ==
    /\ inflight[k].pc = "idle"
    /\ u \in users
    /\ IF ~body.wellTyped
       THEN Finish(k, "update", "ValidationError")
       ELSE Suspend(k, Req("put.find", u, id, body)) /\ UNCHANGED resp
    /\ UNCHANGED clientVars
    /\ UNCHANGED <<bookings, vehicles, deactivated, users, signedUp, now,
                   nextId>>

\* await prisma.booking.findUnique resolves; ownership, interval and past
\* checks run before the next await (bookings.ts:307-337).
PutFind(k) ==
    /\ inflight[k].pc = "put.find"
    /\ LET r == inflight[k] IN
       IF findUnique(r.id) = {} THEN Finish(k, "update", "NotFound")
       ELSE IF (CHOOSE b \in findUnique(r.id) : TRUE).userId # r.user
            THEN Finish(k, "update", "Forbidden")
       ELSE IF r.endTime <= r.startTime
            THEN Finish(k, "update", "InvalidInterval")
       ELSE IF r.startTime < now THEN Finish(k, "update", "PastBooking")
       ELSE Suspend(k, [r EXCEPT !.pc = "put.vehicle"]) /\ UNCHANGED resp
    /\ UNCHANGED clientVars
    /\ UNCHANGED <<bookings, vehicles, deactivated, users, signedUp, now,
                   nextId>>

\* await prisma.vehicle.findUnique resolves (bookings.ts:335-344).
PutVehicle(k) ==
    /\ inflight[k].pc = "put.vehicle"
    /\ IF inflight[k].vehicleId \notin vehicles
       THEN Finish(k, "update", "VehicleNotFound")
       ELSE Suspend(k, [inflight[k] EXCEPT !.pc = "put.conflict"])
                /\ UNCHANGED resp
    /\ UNCHANGED clientVars
    /\ UNCHANGED <<bookings, vehicles, deactivated, users, signedUp, now,
                   nextId>>

\* await checkBookingConflict resolves (bookings.ts:344-353).
PutConflict(k) ==
    /\ inflight[k].pc = "put.conflict"
    /\ IF checkBookingConflict(inflight[k].vehicleId, inflight[k].startTime,
                               inflight[k].endTime, inflight[k].id)
       THEN Finish(k, "update", "Conflict")
       ELSE Suspend(k, [inflight[k] EXCEPT !.pc = "put.update"])
                /\ UNCHANGED resp
    /\ UNCHANGED clientVars
    /\ UNCHANGED <<bookings, vehicles, deactivated, users, signedUp, now,
                   nextId>>

\* await prisma.booking.update resolves (bookings.ts:353-384); a row that
\* is gone makes it throw, which the error handler answers with 404, and an
\* update the foreign key refuses with 500.
PutUpdate(k) ==
    /\ inflight[k].pc = "put.update"
    /\ LET r == inflight[k] IN
       IF findUnique(r.id) = {}
       THEN Finish(k, "update", "NotFound") /\ UNCHANGED bookings
       ELSE IF ~ForeignKeyVehicle(r.vehicleId)
       THEN Finish(k, "update", "ServerError") /\ UNCHANGED bookings
       ELSE /\ bookings' = (bookings \ findUnique(r.id)) \cup
                   {[b EXCEPT !.vehicleId = r.vehicleId,
                              !.startTime = r.startTime,
                              !.endTime = r.endTime] : b \in findUnique(r.id)}
            /\ Finish(k, "update", "Admitted")
    /\ UNCHANGED clientVars
    /\ UNCHANGED <<vehicles, deactivated, users, signedUp, now, nextId>>

NextConc ==
    \/ \E k \in Slots, body \in ConcBodies : PostStart(k, Client(k), body)
    \/ \E k \in Slots : PostVehicle(k)
    \/ \E k \in Slots : PostConflict(k)
    \/ \E k \in Slots : PostCreate(k)
    \/ \E k \in Slots, id \in BookingIds, body \in ConcBodies :
           PutStart(k, Client(k), id, body)
    \/ \E k \in Slots : PutFind(k)
    \/ \E k \in Slots : PutVehicle(k)
    \/ \E k \in Slots : PutConflict(k)
    \/ \E k \in Slots : PutUpdate(k)

\* --------------------------- bookings against vehicle deletes, await by await
\* POST /api/admin/vehicles: one insert, with a fresh id.
AdminPostVehicle(u, v) ==
    /\ u \in users
    /\ requireAdmin(u)
    /\ v \notin vehicles
    /\ vehicles' = vehicles \cup {v}
    /\ resp' = Resp("vehicleCreate", "Admitted")
    /\ UNCHANGED clientVars
    /\ UNCHANGED <<bookings, deactivated, users, signedUp, now, nextId,
                   inflight>>

\* DELETE /api/admin/vehicles/:id up to its first await (admin.ts:150-156).
VehDelStart(k, u, v) ==
    /\ inflight[k].pc = "idle"
    /\ u \in users
    /\ requireAdmin(u)
    /\ Suspend(k, [IdleReq EXCEPT !.pc = "veh.count", !.user = u,
                                  !.vehicleId = v])
    /\ UNCHANGED clientVars
    /\ UNCHANGED <<bookings, vehicles, deactivated, users, signedUp, now,
                   nextId, resp>>

\* await prisma.booking.count resolves (admin.ts:154-165).
VehDelCount(k) ==
    /\ inflight[k].pc = "veh.count"
    /\ IF bookingCount(inflight[k].vehicleId) > 0
       THEN Finish(k, "vehicleDelete", "HasBookings")
       ELSE Suspend(k, [inflight[k] EXCEPT !.pc = "veh.delete"])
                /\ UNCHANGED resp
    /\ UNCHANGED clientVars
    /\ UNCHANGED <<bookings, vehicles, deactivated, users, signedUp, now,
                   nextId>>

\* await prisma.vehicle.delete resolves (admin.ts:165-170).  A vehicle that
\* is gone makes it throw.  For a vehicle that has got bookings since the
\* count, the referential action of Booking.vehicle decides: the delete is
\* refused, or it removes those bookings with the vehicle.
VehDelDelete(k) ==
    /\ inflight[k].pc = "veh.delete"
    /\ LET v == inflight[k].vehicleId IN
       IF v \notin vehicles
       THEN /\ Finish(k, "vehicleDelete", "ServerError")
            /\ UNCHANGED <<bookings, vehicles, deactivated>>
       ELSE IF bookingCount(v) > 0
       THEN \/ /\ Finish(k, "vehicleDelete", "ServerError")
               /\ UNCHANGED <<bookings, vehicles, deactivated>>
            \/ /\ bookings' = {b \in bookings : b.vehicleId # v}
               /\ vehicles' = vehicles \ {v}
               /\ deactivated' = deactivated \ {v}
               /\ Finish(k, "vehicleDelete", "Admitted")
       ELSE /\ vehicles' = vehicles \ {v}
            /\ deactivated' = deactivated \ {v}
            /\ Finish(k, "vehicleDelete", "Admitted")
            /\ UNCHANGED bookings
    /\ UNCHANGED clientVars
    /\ UNCHANGED <<users, signedUp, now, nextId>>

\* Requests the handlers are driven with here: the interval [0, 1) on any
\* vehicle id, and administrator updates that move a booking to a vehicle.
RefBodies == {Body(v, 0, 1) : v \in VehicleIds}

MoveBodies ==
    {[vehicleId |-> v, startTime |-> NoTime, endTime |-> NoTime] :
        v \in VehicleIds}

\* The member's session creates and updates bookings while the
\* administrator's sessions manage the fleet and move bookings.
NextRefConc ==
    \/ \E k \in Slots, body \in RefBodies :
           ~requireAdmin(Client(k)) /\ PostStart(k, Client(k), body)
    \/ \E k \in Slots : PostVehicle(k)
    \/ \E k \in Slots : PostConflict(k)
    \/ \E k \in Slots : PostCreate(k)
    \/ \E k \in Slots, id \in BookingIds, body \in RefBodies :
           ~requireAdmin(Client(k)) /\ PutStart(k, Client(k), id, body)
    \/ \E k \in Slots : PutFind(k)
    \/ \E k \in Slots : PutVehicle(k)
    \/ \E k \in Slots : PutConflict(k)
    \/ \E k \in Slots : PutUpdate(k)
    \/ \E u \in Users, id \in BookingIds, body \in MoveBodies :
           AdminPutBooking(u, id, body)
    \/ \E u \in Users, v \in VehicleIds : AdminPostVehicle(u, v)
    \/ \E k \in Slots, v \in VehicleIds : VehDelStart(k, Client(k), v)
    \/ \E k \in Slots : VehDelCount(k)
    \/ \E k \in Slots : VehDelDelete(k)

\* ------------------------------------------------- signup, await by await
\* Email addresses sent to POST /api/auth/signup, and one string that is not
\* an email address.
SignupEmails ==
    {"alice@example.com", "Bob@example.com", "bob@example.com",
     "carol@example.com"}

NotAnEmail == "nobody"

\* body('email').normalizeEmail(): the address in lower case.
normalizeEmail(e) == IF e = "Bob@example.com" THEN "bob@example.com" ELSE e

\* The emails of the rows of the User table.
UserEmails ==
    {Email(u) : u \in users} \cup {signedUp[i] : i \in DOMAIN signedUp}

\* An insert that the unique index would refuse goes through.
UniqueEmailUnchecked(e) == TRUE

\* The unique index on User.email, enforced by the database on insert.
UniqueEmail(e) == e \notin UserEmails

\* POST /api/auth/signup up to its first await (auth.ts:69-84).
SignupStart(k, raw) ==
    /\ inflight[k].pc = "idle"
    /\ IF raw = NotAnEmail
       THEN Finish(k, "signup", "ValidationError")
       ELSE Suspend(k, [IdleReq EXCEPT !.pc = "signup.find",
                                       !.user = normalizeEmail(raw)])
                /\ UNCHANGED resp
    /\ UNCHANGED clientVars
    /\ UNCHANGED <<bookings, vehicles, deactivated, users, signedUp, now,
                   nextId>>

\* await prisma.user.findUnique({ where: { email } }) resolves
\* (auth.ts:84-92).
SignupFind(k) ==
    /\ inflight[k].pc = "signup.find"
    /\ IF inflight[k].user \in UserEmails
       THEN Finish(k, "signup", "Conflict")
       ELSE Suspend(k, [inflight[k] EXCEPT !.pc = "signup.create"])
                /\ UNCHANGED resp
    /\ UNCHANGED clientVars
    /\ UNCHANGED <<bookings, vehicles, deactivated, users, signedUp, now,
                   nextId>>

\* await bcrypt.hash and await prisma.user.create resolve (auth.ts:92-125);
\* an insert the unique index refuses throws P2002, which the error handler
\* answers with 409.
SignupCreate(k) ==
    /\ inflight[k].pc = "signup.create"
    /\ IF ~UniqueEmail(inflight[k].user)
       THEN Finish(k, "signup", "Conflict") /\ UNCHANGED signedUp
       ELSE /\ signedUp' = Append(signedUp, inflight[k].user)
            /\ Finish(k, "signup", "Admitted")
    /\ UNCHANGED clientVars
    /\ UNCHANGED <<bookings, vehicles, deactivated, users, now, nextId>>

NextSignup ==
    \/ \E k \in Slots, raw \in SignupEmails \cup {NotAnEmail} :
           SignupStart(k, raw)
    \/ \E k \in Slots : SignupFind(k)
    \/ \E k \in Slots : SignupCreate(k)

\* ------------------------------------------- browser: AuthContext.tsx
AllCallsIdle == \A c \in Slots : calls[c].pc = "idle"

\* The answers to a request behind the server's authentication: the request
\* interceptor attaches the bearer token only when one is stored, a token
\* may have expired, and any request may fail on the network.
ApiAnswers(tok) ==
    IF tok = NoToken THEN {"401", "error"} ELSE {"ok", "401", "error"}

\* GET /api/admin/check: requireAdmin answers 403 off the allow-list.
CheckAdminAnswers(tok) ==
    IF tok = NoToken THEN {"401", "error"}
    ELSE IF requireAdmin(tok) THEN {"ok", "401", "error"}
    ELSE {"403", "401", "error"}

\* POST /api/auth/login: 401 for an unknown email or a wrong password.
LoginAnswers(cred) ==
    IF Email(cred) \in UserEmails THEN {"ok", "401", "error"}
    ELSE {"401", "error"}

\* POST /api/auth/signup: 409 when the email is registered.
SignupAnswers(cred) ==
    IF UniqueEmail(Email(cred)) THEN {"ok", "error"} ELSE {"409", "error"}

\* The response interceptor: a 401 removes the stored token.
Intercept(answer, token) == IF answer = "401" THEN NoToken ELSE token

Return(c) == calls' = [calls EXCEPT ![c] = IdleCall]

\* checkAdminStatus up to its await: the request reads the stored token.
checkAdminStatus(c, token) ==
    calls' = [calls EXCEPT ![c] = Call(calls[c].fn, "checkAdmin",
                                        calls[c].cred, token)]

\* The page is loaded again: the provider is constructed anew, every
\* suspended function is gone, localStorage is kept.
Reload ==
    /\ auth' = [InitAuth EXCEPT !.token = auth.token]
    /\ calls' = [c \in Slots |-> IdleCall]
    /\ modal' = InitModal
    /\ UNCHANGED serverVars

\* The mount effect, up to its first await.
checkAuth(c) ==
    /\ auth.isLoading
    /\ AllCallsIdle
    /\ IF auth.token = NoToken
       THEN /\ auth' = [auth EXCEPT !.isLoading = FALSE]
            /\ UNCHANGED calls
       ELSE /\ calls' = [calls EXCEPT
                            ![c] = Call("checkAuth", "getMe", NoUser,
                                        auth.token)]
            /\ UNCHANGED auth
    /\ UNCHANGED <<serverVars, modal>>

refreshUser(c) ==
    /\ ~auth.isLoading
    /\ calls[c].pc = "idle"
    /\ calls' = [calls EXCEPT
                    ![c] = Call("refreshUser", "getMe", NoUser, auth.token)]
    /\ UNCHANGED <<serverVars, auth, modal>>

\* authApi.getMe() settles, in checkAuth and in refreshUser.
GetMeDone(c, answer) ==
    /\ calls[c].pc = "getMe"
    /\ answer \in ApiAnswers(calls[c].tok)
    /\ IF answer = "ok"
       THEN /\ auth' = [auth EXCEPT !.user = calls[c].tok]
            /\ checkAdminStatus(c, auth.token)
       ELSE /\ auth' = IF calls[c].fn = "checkAuth"
                       THEN [auth EXCEPT !.token = NoToken,
                                         !.isLoading = FALSE]
                       ELSE [auth EXCEPT !.token = NoToken,
                                         !.user = NoUser,
                                         !.isAdmin = FALSE]
            /\ Return(c)
    /\ resp' = Resp(calls[c].pc, answer)
    /\ UNCHANGED <<bookings, vehicles, deactivated, users, signedUp, now,
                   nextId, inflight, modal>>

\* adminApi.checkAdmin() settles and the calling function returns.
CheckAdminDone(c, answer) ==
    /\ calls[c].pc = "checkAdmin"
    /\ answer \in CheckAdminAnswers(calls[c].tok)
    /\ auth' = [auth EXCEPT
                   !.token = Intercept(answer, @),
                   !.isAdmin = (answer = "ok"),
                   !.isLoading = IF calls[c].fn = "checkAuth" THEN FALSE
                                 ELSE @]
    /\ Return(c)
    /\ resp' = Resp(calls[c].pc, answer)
    /\ UNCHANGED <<bookings, vehicles, deactivated, users, signedUp, now,
                   nextId, inflight, modal>>

\* The login page is shown to a client without a user (PublicRoute).
login(c, cred) ==
    /\ ~auth.isLoading
    /\ auth.user = NoUser
    /\ calls[c].pc = "idle"
    /\ calls' = [calls EXCEPT ![c] = Call("login", "login", cred, auth.token)]
    /\ UNCHANGED <<serverVars, auth, modal>>

LoginDone(c, answer) ==
    /\ calls[c].pc = "login"
    /\ answer \in LoginAnswers(calls[c].cred)
    /\ IF answer = "ok"
       THEN /\ auth' = [auth EXCEPT !.token = calls[c].cred,
                                    !.user = calls[c].cred]
            /\ checkAdminStatus(c, calls[c].cred)
       ELSE /\ auth' = [auth EXCEPT !.token = Intercept(answer, @)]
            /\ Return(c)
    /\ resp' = Resp(calls[c].pc, answer)
    /\ UNCHANGED <<bookings, vehicles, deactivated, users, signedUp, now,
                   nextId, inflight, modal>>

signup(c, cred) ==
    /\ ~auth.isLoading
    /\ auth.user = NoUser
    /\ calls[c].pc = "idle"
    /\ calls' = [calls EXCEPT
                    ![c] = Call("signup", "signup", cred, auth.token)]
    /\ UNCHANGED <<serverVars, auth, modal>>

\* authApi.signup() settles; on success the server has created the account.
SignupDone(c, answer) ==
    /\ calls[c].pc = "signup"
    /\ answer \in SignupAnswers(calls[c].cred)
    /\ IF answer = "ok"
       THEN /\ signedUp' = Append(signedUp, Email(calls[c].cred))
            /\ auth' = [auth EXCEPT !.token = calls[c].cred,
                                    !.user = calls[c].cred]
            /\ checkAdminStatus(c, calls[c].cred)
       ELSE /\ UNCHANGED <<signedUp, auth>>
            /\ Return(c)
    /\ resp' = Resp(calls[c].pc, answer)
    /\ UNCHANGED <<bookings, vehicles, deactivated, users, now, nextId,
                   inflight, modal>>

\* The logout button is in the navigation bar of the protected pages.
logout(c) ==
    /\ ~auth.isLoading
    /\ auth.user # NoUser
    /\ calls[c].pc = "idle"
    /\ calls' = [calls EXCEPT
                    ![c] = Call("logout", "logout", NoUser, auth.token)]
    /\ UNCHANGED <<serverVars, auth, modal>>

\* A logout that clears the session only when the API call succeeded.
LogoutDoneOnSuccess(c, answer) ==
    /\ calls[c].pc = "logout"
    /\ answer \in {"ok", "error"}
    /\ auth' = IF answer = "ok"
               THEN [auth EXCEPT !.token = NoToken, !.user = NoUser,
                                 !.isAdmin = FALSE]
               ELSE auth
    /\ Return(c)
    /\ resp' = Resp(calls[c].pc, answer)
    /\ UNCHANGED <<bookings, vehicles, deactivated, users, signedUp, now,
                   nextId, inflight, modal>>

\* authApi.logout() settles; the finally block runs either way.
LogoutDone(c, answer) ==
    /\ calls[c].pc = "logout"
    /\ answer \in {"ok", "error"}
    /\ auth' = [auth EXCEPT !.token = NoToken, !.user = NoUser,
                            !.isAdmin = FALSE]
    /\ Return(c)
    /\ resp' = Resp(calls[c].pc, answer)
    /\ UNCHANGED <<bookings, vehicles, deactivated, users, signedUp, now,
                   nextId, inflight, modal>>

Answers == {"ok", "401", "403", "409", "error"}

NextClient ==
    \/ Reload
    \/ \E c \in Slots : checkAuth(c)
    \/ \E c \in Slots : refreshUser(c)
    \/ \E c \in Slots, cred \in Accounts : login(c, cred)
    \/ \E c \in Slots, cred \in Accounts : signup(c, cred)
    \/ \E c \in Slots : logout(c)
    \/ \E c \in Slots, answer \in Answers : GetMeDone(c, answer)
    \/ \E c \in Slots, answer \in Answers : CheckAdminDone(c, answer)
    \/ \E c \in Slots, answer \in Answers : LoginDone(c, answer)
    \/ \E c \in Slots, answer \in Answers : SignupDone(c, answer)
    \/ \E c \in Slots, answer \in Answers : LogoutDone(c, answer)

\* App.tsx: the guards of the routes.
ProtectedRoute == ~auth.isLoading /\ auth.user # NoUser

AdminRoute == ~auth.isLoading /\ auth.isAdmin

\* ------------------------------------------ browser: BookingModal.tsx
\* The values of a datetime-local input once parsed by new Date().
Dates == Times \cup {InvalidDate}

\* Date comparison: every comparison with the Invalid Date is false.
DateLte(a, b) == a # InvalidDate /\ b # InvalidDate /\ a <= b

DateLt(a, b) == a # InvalidDate /\ b # InvalidDate /\ a < b

\* The effect that initializes the form of a new booking; it runs whenever
\* isOpen changes.
InitializeForm(m, v) ==
    [m EXCEPT !.vehicleId = v, !.startTime = now + 1, !.endTime = now + 2,
              !.error = NoError]

\* vehicles[0]?.id || ''
FirstVehicle == IF vehicles = {} THEN {NoVehicle} ELSE vehicles

\* The page opens the modal for a new booking.
OpenModal(v) ==
    /\ ~modal.isOpen
    /\ v \in FirstVehicle
    /\ modal' = InitializeForm([modal EXCEPT !.isOpen = TRUE], v)
    /\ UNCHANGED <<serverVars, auth, calls>>

\* The user dismisses the modal (Cancel, the close button, Escape).
CloseModal(v) ==
    /\ modal.isOpen
    /\ v \in FirstVehicle
    /\ modal' = InitializeForm([modal EXCEPT !.isOpen = FALSE], v)
    /\ UNCHANGED <<serverVars, auth, calls>>

handleChange(name, value) ==
    /\ modal.isOpen
    /\ \/ name = "vehicleId" /\ value \in vehicles \cup {NoVehicle}
       \/ name \in {"startTime", "endTime"} /\ value \in Dates
    /\ modal' = [modal EXCEPT ![name] = value, !.error = NoError]
    /\ UNCHANGED <<serverVars, auth, calls>>

\* The validation of handleSubmit: the first error, or none.
ValidationError(m) ==
    IF m.vehicleId = NoVehicle THEN "Please select a vehicle"
    ELSE IF DateLte(m.endTime, m.startTime)
    THEN "End time must be after start time"
    ELSE IF DateLt(m.startTime, now) THEN "Cannot book in the past"
    ELSE NoError

\* handleSubmit up to its await; the submit button is disabled while
\* isSubmitting.
handleSubmit ==
    /\ modal.isOpen
    /\ ~modal.isSubmitting
    /\ IF ValidationError(modal) # NoError
       THEN modal' = [modal EXCEPT !.error = ValidationError(modal)]
       ELSE modal' = [modal EXCEPT
                         !.error = NoError,
                         !.isSubmitting = TRUE,
                         !.pending = TRUE,
                         !.sent = FormData(modal.vehicleId, modal.startTime,
                                           modal.endTime, now)]
    /\ UNCHANGED <<serverVars, auth, calls>>

\* onSubmit settles: onClose() after it resolved, the error after it
\* rejected, and the finally block either way.
SubmitDone(answer, v) ==
    /\ modal.pending
    /\ answer \in {"ok", "error"}
    /\ v \in FirstVehicle
    /\ modal' =
           IF answer = "ok"
           THEN IF modal.isOpen
                THEN InitializeForm([modal EXCEPT !.isOpen = FALSE,
                                                  !.isSubmitting = FALSE,
                                                  !.pending = FALSE], v)
                ELSE [modal EXCEPT !.isSubmitting = FALSE,
                                   !.pending = FALSE]
           ELSE [modal EXCEPT !.error = "Failed to save booking",
                              !.isSubmitting = FALSE, !.pending = FALSE]
    /\ resp' = Resp("onSubmit", answer)
    /\ UNCHANGED <<bookings, vehicles, deactivated, users, signedUp, now,
                   nextId, inflight, auth, calls>>

NextModal ==
    \/ Tick
    \/ \E v \in VehicleIds \cup {NoVehicle} : OpenModal(v)
    \/ \E v \in VehicleIds \cup {NoVehicle} : CloseModal(v)
    \/ \E value \in VehicleIds \cup {NoVehicle} :
           handleChange("vehicleId", value)
    \/ \E name \in {"startTime", "endTime"}, value \in Dates :
           handleChange(name, value)
    \/ handleSubmit
    \/ \E answer \in Answers, v \in VehicleIds \cup {NoVehicle} :
           SubmitDone(answer, v)

NextOwner ==
    \/ Tick
    \/ \E u \in Users, body \in BookingBodies : PostBooking(u, body)
    \/ \E u \in Users, id \in BookingIds, body \in BookingBodies :
           PutBooking(u, id, body)
    \/ \E u \in Users, id \in BookingIds : DeleteBooking(u, id)

\* The administrator's update that edits the title or description only.
TitleOnlyBody == [vehicleId |-> Absent, startTime |-> NoTime, endTime |-> NoTime]

AdminOps == {"adminUpdate", "adminDelete"}

\* Owner routes, and the administrator routes that leave intervals alone.
NextAuth ==
    \/ Tick
    \/ \E u \in Users, body \in BookingBodies : PostBooking(u, body)
    \/ \E u \in Users, id \in BookingIds, body \in BookingBodies :
           PutBooking(u, id, body)
    \/ \E u \in Users, id \in BookingIds : DeleteBooking(u, id)
    \/ \E u \in Users, op \in AdminOps : AdminDenied(u, op)
    \/ \E u \in Users, id \in BookingIds : AdminPutBooking(u, id, TitleOnlyBody)
    \/ \E u \in Users, id \in BookingIds : AdminDeleteBooking(u, id)

FleetOps == {"vehicleUpdate", "vehicleDelete"}

\* Owner routes, and the administrator's vehicle routes.
NextFleet ==
    \/ Tick
    \/ \E u \in Users, body \in BookingBodies : PostBooking(u, body)
    \/ \E u \in Users, id \in BookingIds, body \in BookingBodies :
           PutBooking(u, id, body)
    \/ \E u \in Users, id \in BookingIds : DeleteBooking(u, id)
    \/ \E u \in Users, op \in FleetOps : AdminDenied(u, op)
    \/ \E u \in Users, v \in VehicleIds, isActive \in BOOLEAN :
           AdminPutVehicle(u, v, isActive)
    \/ \E u \in Users, v \in VehicleIds : AdminDeleteVehicle(u, v)

ManageOps == {"vehicleDelete", "userDelete", "cleanup"}

\* Creating and deleting bookings, and the administrator's vehicle delete,
\* user delete and cleanup routes.
NextManage ==
    \/ Tick
    \/ \E u \in Users, body \in BookingBodies : PostBooking(u, body)
    \/ \E u \in Users, id \in BookingIds : DeleteBooking(u, id)
    \/ \E u \in Users, op \in ManageOps : AdminDenied(u, op)
    \/ \E u \in Users, v \in VehicleIds : AdminDeleteVehicle(u, v)
    \/ \E u \in Users, target \in Users : AdminDeleteUser(u, target)
    \/ \E u \in Users : AdminCleanupPast(u)

AllAdminOps ==
    {"vehicleCreate", "vehicleUpdate", "vehicleDelete", "userDelete",
     "adminUpdate", "adminDelete", "bulkDelete", "cleanup"}

\* Creating bookings of the interval [0, 1), and every administrator route.
NextGate ==
    \/ Tick
    \/ \E u \in Users, body \in RefBodies : PostBooking(u, body)
    \/ \E u \in Users, op \in AllAdminOps : AdminDenied(u, op)
    \/ \E u \in Users, v \in VehicleIds : AdminPostVehicle(u, v)
    \/ \E u \in Users, v \in VehicleIds, isActive \in BOOLEAN :
           AdminPutVehicle(u, v, isActive)
    \/ \E u \in Users, v \in VehicleIds : AdminDeleteVehicle(u, v)
    \/ \E u \in Users, target \in Users : AdminDeleteUser(u, target)
    \/ \E u \in Users, id \in BookingIds, body \in MoveBodies :
           AdminPutBooking(u, id, body)
    \/ \E u \in Users, id \in BookingIds : AdminDeleteBooking(u, id)
    \/ \E u \in Users, ids \in SUBSET BookingIds : AdminBulkDelete(u, ids)
    \/ \E u \in Users : AdminCleanupPast(u)

Next ==
    \/ Tick
    \/ \E u \in Users, body \in BookingBodies : PostBooking(u, body)
    \/ \E u \in Users, id \in BookingIds, body \in BookingBodies :
           PutBooking(u, id, body)
    \/ \E u \in Users, id \in BookingIds : DeleteBooking(u, id)
    \/ \E u \in Users, op \in AdminOps : AdminDenied(u, op)
    \/ \E u \in Users, id \in BookingIds, body \in AdminBodies :
           AdminPutBooking(u, id, body)
    \/ \E u \in Users, id \in BookingIds : AdminDeleteBooking(u, id)

Spec == Init /\ [][Next]_vars

SpecOwner == Init /\ [][NextOwner]_vars

SpecAuth == Init /\ [][NextAuth]_vars

SpecConc == Init /\ [][NextConc]_vars

SpecRefConc == Init /\ [][NextRefConc]_vars

SpecFleet == Init /\ [][NextFleet]_vars

SpecManage == Init /\ [][NextManage]_vars

SpecGate == Init /\ [][NextGate]_vars

SpecSignup == Init /\ [][NextSignup]_vars

SpecClient == Init /\ [][NextClient]_vars

SpecModal == Init /\ [][NextModal]_vars

\* ======================================================================
\* Properties
\* ======================================================================
\* The interval-intersection test of two intervals [s1, e1) and [s2, e2).
Intersects(s1, e1, s2, e2) == s1 < e2 /\ s2 < e1

IsAdmin(u) == Email(u) \in ADMIN_EMAILS

AllIdle == \A k \in Slots : inflight[k].pc = "idle"

\* C1: with every request run to completion before the next, after any
\* sequence of owner-route requests (POST, PUT, DELETE /api/bookings) no two
\* distinct stored bookings of the same vehicle have intersecting intervals.
NoOverlap ==
    \A b1 \in bookings : \A b2 \in bookings :
        (b1 # b2 /\ b1.vehicleId = b2.vehicleId)
            => ~Intersects(b1.startTime, b1.endTime, b2.startTime, b2.endTime)

\* Two back-to-back bookings of one vehicle are stored and a request has
\* just been refused as a conflict.
NoOverlapWitness ==
    /\ resp.kind = "Conflict"
    /\ \E b1 \in bookings : \E b2 \in bookings :
           /\ b1 # b2
           /\ b1.vehicleId = b2.vehicleId
           /\ b1.endTime = b2.startTime

\* C2: when two admission requests for the same vehicle are interleaved at
\* their awaits, at most one of two overlapping candidates commits: once
\* every handler has finished, no two stored bookings of a vehicle intersect.
SerializedAdmission == AllIdle => NoOverlap

\* C3: every stored booking ends strictly after it starts.
EndAfterStart == \A b \in bookings : b.endTime > b.startTime

\* C4: a step that creates a booking, or gives a stored booking a new start,
\* commits a start that is not before the clock read by that request.
StartNotInPast ==
    [][\A b \in bookings' :
          (\A o \in bookings : o.id = b.id => o.startTime # b.startTime)
              => b.startTime >= now]_vars

\* C5: for every candidate [s, e) with e > s and every stored booking of the
\* same vehicle other than the excluded one, checkBookingConflict's where
\* clause matches the row exactly when the two intervals intersect.
ConflictIsIntersection ==
    \A b \in bookings : \A s \in Times : \A e \in Times :
        \A x \in BookingIds \cup {NoId} :
            (e > s /\ b.id # x)
                => (ConflictWhere(b, b.vehicleId, s, e, x)
                        <=> Intersects(s, e, b.startTime, b.endTime))

\* C6: a candidate that starts where a stored booking of the vehicle ends, or
\* ends where it starts, is not matched as a conflict with that booking by
\* the owner routes' check nor by the administrator route's.
BackToBackLegal ==
    \A b \in bookings : \A s \in Times : \A e \in Times :
        (e > s /\ (s = b.endTime \/ e = b.startTime))
            => /\ ~ConflictWhere(b, b.vehicleId, s, e, NoId)
               /\ ~AdminConflictWhere(b, NoId, b.vehicleId, s, e)

\* C7: a well-typed create request gets InvalidInterval when end <= start,
\* whatever else is wrong; otherwise PastBooking when start < now; otherwise
\* VehicleNotFound when the vehicle is missing; otherwise Conflict when it
\* intersects a stored booking of the vehicle; and it is admitted only when
\* none of the four applies.
CreateOverlaps(body) ==
    \E b \in bookings :
        /\ b.vehicleId = body.vehicleId
        /\ Intersects(body.startTime, body.endTime, b.startTime, b.endTime)

CreateValidationOrder ==
    \A u \in users : \A body \in BookingBodies :
        body.wellTyped =>
            LET out == PostOutcome(u, body)
                bad == body.endTime <= body.startTime
                past == body.startTime < now
                missing == body.vehicleId \notin vehicles
            IN /\ bad => out = "InvalidInterval"
               /\ (~bad /\ past) => out = "PastBooking"
               /\ (~bad /\ ~past /\ missing) => out = "VehicleNotFound"
               /\ (~bad /\ ~past /\ ~missing /\ CreateOverlaps(body))
                      => out = "Conflict"
               /\ out = "Admitted"
                      => (~bad /\ ~past /\ ~missing /\ ~CreateOverlaps(body))

\* A create request has just been refused as InvalidInterval in a state where
\* some request with end <= start is also in the past and names a missing
\* vehicle.
CreateValidationOrderWitness ==
    /\ resp = Resp("create", "InvalidInterval")
    /\ \E body \in BookingBodies :
           /\ body.wellTyped
           /\ body.endTime <= body.startTime
           /\ body.startTime < now
           /\ body.vehicleId \notin vehicles

\* C8: on an update of a stored booking, a requester who is neither its
\* owner nor an administrator gets Forbidden for every well-typed body, on
\* PUT /api/bookings/:id and on PUT /api/admin/bookings/:id, and never
\* InvalidInterval, PastBooking, VehicleNotFound or Conflict.
TemporalKinds == {"InvalidInterval", "PastBooking", "VehicleNotFound", "Conflict"}

OwnershipGateFirst ==
    \A u \in users : \A b \in bookings :
        (u # b.userId /\ ~IsAdmin(u))
            => /\ \A body \in BookingBodies :
                      /\ body.wellTyped
                             => PutOutcome(u, b.id, body) = "Forbidden"
                      /\ PutOutcome(u, b.id, body) \notin TemporalKinds
               /\ \A body \in AdminBodies :
                      AdminPutOutcome(u, b.id, body) = "Forbidden"

\* An update has just been refused as Forbidden while a stored booking's
\* non-owner, who is no administrator, has a body with end <= start, in the
\* past, for a missing vehicle.
OwnershipGateFirstWitness ==
    /\ resp = Resp("update", "Forbidden")
    /\ \E u \in users : \E b \in bookings : \E body \in BookingBodies :
           /\ u # b.userId /\ ~IsAdmin(u)
           /\ body.wellTyped
           /\ body.endTime <= body.startTime
           /\ body.startTime < now
           /\ body.vehicleId \notin vehicles

\* C9 as stated: an update of a stored booking is refused as Forbidden
\* exactly when the requester is neither its owner nor an administrator.
ForbiddenIffNeitherOwnerNorAdmin ==
    \A u \in users : \A b \in bookings : \A body \in BookingBodies :
        body.wellTyped =>
            (PutOutcome(u, b.id, body) = "Forbidden"
                <=> (u # b.userId /\ ~IsAdmin(u)))

\* C9 as amended: PUT /api/bookings/:id with a well-typed body is refused as
\* Forbidden exactly when the requester is not the booking's owner,
\* administrator or not; PUT /api/admin/bookings/:id is refused as Forbidden
\* exactly when the requester is not an administrator, owner or not.
ForbiddenPerRoute ==
    \A u \in users : \A b \in bookings :
        /\ \A body \in BookingBodies :
               body.wellTyped =>
                   (PutOutcome(u, b.id, body) = "Forbidden" <=> u # b.userId)
        /\ \A body \in AdminBodies :
               AdminPutOutcome(u, b.id, body) = "Forbidden" <=> ~IsAdmin(u)

\* An update on the owner route has just been refused as Forbidden and every
\* stored booking belongs to a user who is no administrator while every other
\* user is one: the refused requester was an administrator.
ForbiddenPerRouteWitness ==
    /\ resp = Resp("update", "Forbidden")
    /\ bookings # {}
    /\ \A b \in bookings : \A u \in users :
           u # b.userId => IsAdmin(u)

\* C10: a single-booking delete request removes the booking only if the
\* requester is its owner or an administrator; from anyone else it is refused
\* as Forbidden and the store of bookings is unchanged.
DeleteOnlyByOwnerOrAdmin ==
    [][resp'.op \in {"delete", "adminDelete"} =>
          \A u \in Users : \A id \in BookingIds :
              (\/ DeleteBooking(u, id)
               \/ AdminDeleteBooking(u, id)
               \/ AdminDenied(u, "adminDelete"))
                  => \A b \in findUnique(id) :
                         /\ b \notin bookings' => (u = b.userId \/ IsAdmin(u))
                         /\ (u # b.userId /\ ~IsAdmin(u))
                                => /\ resp'.kind = "Forbidden"
                                   /\ bookings' = bookings
      ]_vars

\* A delete has just been refused as Forbidden and the booking of a user
\* other than the only possible requester is still stored.
DeleteOnlyByOwnerOrAdminWitness ==
    /\ resp = Resp("delete", "Forbidden")
    /\ \E b \in bookings : \E u \in users : u # b.userId /\ ~IsAdmin(u)

\* The update request that re-submits a stored booking's own vehicle and
\* interval.
SelfBody(b) == Body(b.vehicleId, b.startTime, b.endTime)

\* C11 as stated: the owner's update of a stored booking with the booking's
\* own vehicle and interval is admitted.
SelfUpdateAdmitted ==
    \A b \in bookings : PutOutcome(b.userId, b.id, SelfBody(b)) = "Admitted"

\* C11 as amended: the owner's update of a stored booking X with X's own
\* vehicle and interval never matches X itself in the conflict check and is
\* never refused as Forbidden; it is admitted exactly when the other
\* validations pass, that is when X ends after it starts, does not start
\* before the current instant, its vehicle exists, and no other booking of
\* the vehicle conflicts with it.
SelfUpdateNeverConflicts ==
    \A b \in bookings :
        LET out == PutOutcome(b.userId, b.id, SelfBody(b)) IN
        /\ ~ConflictWhere(b, b.vehicleId, b.startTime, b.endTime, b.id)
        /\ out # "Forbidden"
        /\ out = "Admitted"
               <=> /\ b.endTime > b.startTime
                   /\ b.startTime >= now
                   /\ b.vehicleId \in vehicles
                   /\ \A o \in bookings \ {b} :
                          ~ConflictWhere(o, b.vehicleId, b.startTime,
                                         b.endTime, NoId)

\* An update has just been admitted, and a stored booking that shares its
\* vehicle with another stored booking can be re-submitted unchanged (and
\* would conflict with itself without the exclusion).
SelfUpdateNeverConflictsWitness ==
    /\ resp = Resp("update", "Admitted")
    /\ \E b \in bookings : \E o \in bookings :
           /\ o # b /\ o.vehicleId = b.vehicleId
           /\ PutOutcome(b.userId, b.id, SelfBody(b)) = "Admitted"
           /\ ConflictWhere(b, b.vehicleId, b.startTime, b.endTime, NoId)

\* C12: a well-typed candidate whose start equals the current instant is not
\* refused as PastBooking, and one whose start is one unit before the current
\* instant, with end > start, is refused as PastBooking, on POST
\* /api/bookings and on the owner's PUT /api/bookings/:id.
PastBoundary ==
    \A body \in BookingBodies :
        body.wellTyped =>
            /\ \A u \in users :
                   /\ body.startTime = now
                          => PostOutcome(u, body) # "PastBooking"
                   /\ (body.startTime = now - 1
                          /\ body.endTime > body.startTime)
                          => PostOutcome(u, body) = "PastBooking"
            /\ \A b \in bookings :
                   /\ body.startTime = now
                          => PutOutcome(b.userId, b.id, body) # "PastBooking"
                   /\ (body.startTime = now - 1
                          /\ body.endTime > body.startTime)
                          => PutOutcome(b.userId, b.id, body) = "PastBooking"

\* A create has just been refused as PastBooking while the clock is past 0,
\* a stored booking starts exactly at the current instant, and its owner can
\* still move it to an interval starting now.
PastBoundaryWitness ==
    /\ resp = Resp("create", "PastBooking")
    /\ now > 0
    /\ \E b \in bookings :
           /\ b.startTime = now
           /\ \E e \in Times :
                  PutOutcome(b.userId, b.id, Body(b.vehicleId, now, e))
                      = "Admitted"

\* C13: an administrator's update of a stored booking, supplying any subset
\* of vehicleId, startTime and endTime, is refused as Conflict whenever the
\* row it would write intersects another stored booking of the same vehicle.
AdminUpdateRevalidated ==
    \A u \in users : \A b \in bookings : \A body \in AdminBodies :
        (/\ requireAdmin(u)
         /\ \E o \in bookings :
                /\ o.id # b.id
                /\ o.vehicleId = AdminUpdated(b, body).vehicleId
                /\ Intersects(AdminUpdated(b, body).startTime,
                              AdminUpdated(b, body).endTime,
                              o.startTime, o.endTime))
            => AdminPutOutcome(u, b.id, body) = "Conflict"

\* C14: an administrator's DELETE /api/admin/vehicles/:id for a vehicle that
\* has one or more bookings is refused and leaves the vehicle table and the
\* bookings unchanged; a vehicle is removed only when it has no booking.
VehicleDeleteNeedsNoBookings ==
    [][resp'.op = "vehicleDelete" =>
          \A u \in Users : \A v \in VehicleIds :
              AdminDeleteVehicle(u, v)
                  => /\ bookingCount(v) > 0
                            => /\ resp'.kind = "HasBookings"
                               /\ vehicles' = vehicles
                               /\ bookings' = bookings
                     /\ (v \in vehicles /\ v \notin vehicles')
                            => /\ bookingCount(v) = 0
                               /\ resp'.kind = "Admitted"
                               /\ bookings' = bookings
      ]_vars

\* A vehicle delete has just been refused because the vehicle, still in the
\* table, has a booking.
VehicleDeleteNeedsNoBookingsWitness ==
    /\ resp = Resp("vehicleDelete", "HasBookings")
    /\ \E b \in bookings : b.vehicleId \in vehicles

\* C16: the administrator's cleanup deletes exactly the bookings whose end is
\* before the current instant: afterwards the stored bookings are exactly the
\* former ones with end >= now, each unchanged.
CleanupDeletesExactlyPast ==
    [][resp'.op = "cleanup" =>
          \A u \in Users :
              AdminCleanupPast(u)
                  => /\ bookings' = {b \in bookings : b.endTime >= now}
                     /\ \A b \in bookings' : ~(b.endTime < now')
      ]_vars

\* A cleanup has just run, with the clock past 0, after which a booking that
\* ends exactly at the current instant is stored and an earlier one is gone.
CleanupDeletesExactlyPastWitness ==
    /\ resp = Resp("cleanup", "Admitted")
    /\ now > 0
    /\ \E b \in bookings : b.endTime = now /\ b.id > 1
    /\ findUnique(1) = {}

\* C17: after an administrator's successful DELETE /api/admin/users/:id the
\* user is gone, no stored booking has that user as its owner, and the
\* bookings of the other users are all stored, unchanged.
UserDeleteCascades ==
    [][resp'.op = "userDelete" =>
          \A u \in Users : \A target \in Users :
              (AdminDeleteUser(u, target) /\ resp'.kind = "Admitted")
                  => /\ target \notin users'
                     /\ \A b \in bookings' : b.userId # target
                     /\ bookings' = {b \in bookings : b.userId # target}
      ]_vars

\* A user delete has just succeeded, the administrator's own booking is still
\* stored and a booking with an earlier id is gone.
UserDeleteCascadesWitness ==
    /\ resp = Resp("userDelete", "Admitted")
    /\ "alice" \notin users
    /\ \E b \in bookings : b.userId = "demo" /\ b.id > 1
    /\ findUnique(1) = {}

OverlapSymmetric ==
    \A b \in bookings : \A s \in Times : \A e \in Times :
        (e > s /\ b.endTime > b.startTime) =>
            (ConflictWhere(b, b.vehicleId, s, e, NoId)
                <=> ConflictWhere(Booking(NoId, b.userId, b.vehicleId, s, e),
                                  b.vehicleId, b.startTime, b.endTime, NoId))

\* A request has just been refused as a conflict while some candidate that
\* strictly contains, or is strictly contained in, a stored booking conflicts
\* with it in both roles.
OverlapSymmetricWitness ==
    /\ resp.kind = "Conflict"
    /\ \E b \in bookings : \E s \in Times : \E e \in Times :
           /\ e > s
           /\ <<s, e>> # <<b.startTime, b.endTime>>
           /\ ConflictWhere(b, b.vehicleId, s, e, NoId)
           /\ ConflictWhere(Booking(NoId, b.userId, b.vehicleId, s, e),
                            b.vehicleId, b.startTime, b.endTime, NoId)

\* C19: every response to a well-typed create, update or delete request that
\* is not an admission is one of InvalidInterval, PastBooking,
\* VehicleNotFound, Conflict and Forbidden.
RejectionKinds ==
    {"InvalidInterval", "PastBooking", "VehicleNotFound", "Conflict",
     "Forbidden"}

RejectionSetClosed ==
    (/\ resp.op \in {"create", "update", "delete", "adminUpdate", "adminDelete"}
     /\ resp.kind \notin {"Admitted", "ValidationError"})
        => resp.kind \in RejectionKinds

\* C20: a well-typed create, or update by the booking's owner, with end >
\* start and start >= now, whose vehicleId names a vehicle that is missing or
\* deactivated, is refused as VehicleNotFound.
UsableVehicleRequired ==
    \A body \in BookingBodies :
        (/\ body.wellTyped
         /\ body.endTime > body.startTime
         /\ body.startTime >= now
         /\ (body.vehicleId \notin vehicles \/ body.vehicleId \in deactivated))
            => /\ \A u \in users : PostOutcome(u, body) = "VehicleNotFound"
               /\ \A b \in bookings :
                      PutOutcome(b.userId, b.id, body) = "VehicleNotFound"

\* A request of user u to any administrator route.
AdminRequest(u) ==
    \/ \E op \in AllAdminOps : AdminDenied(u, op)
    \/ \E v \in VehicleIds : AdminPostVehicle(u, v)
    \/ \E v \in VehicleIds, isActive \in BOOLEAN : AdminPutVehicle(u, v, isActive)
    \/ \E v \in VehicleIds : AdminDeleteVehicle(u, v)
    \/ \E target \in Users : AdminDeleteUser(u, target)
    \/ \E id \in BookingIds, body \in MoveBodies : AdminPutBooking(u, id, body)
    \/ \E id \in BookingIds : AdminDeleteBooking(u, id)
    \/ \E ids \in SUBSET BookingIds : AdminBulkDelete(u, ids)
    \/ AdminCleanupPast(u)

\* C21: a request to an administrator route (vehicle create, update, delete;
\* user delete; booking update, delete, bulk delete; cleanup) from a requester
\* who is not an administrator is answered Forbidden and leaves the users,
\* vehicles and bookings unchanged; so such a route takes effect only for an
\* administrator.
AdminRoutesAdminOnly ==
    [][resp'.op \in AllAdminOps =>
          \A u \in Users :
              (~IsAdmin(u) /\ AdminRequest(u))
                  => /\ resp'.kind = "Forbidden"
                     /\ bookings' = bookings
                     /\ vehicles' = vehicles
                     /\ deactivated' = deactivated
                     /\ users' = users
      ]_vars

\* A vehicle delete has just been refused as Forbidden although the vehicle
\* exists and has no booking, and a booking is stored.
AdminRoutesAdminOnlyWitness ==
    /\ resp = Resp("vehicleDelete", "Forbidden")
    /\ \E v \in vehicles : bookingCount(v) = 0
    /\ bookings # {}
    /\ \E u \in users : ~IsAdmin(u)

RejectionChangesNothing ==
    [][(resp'.op \in {"create", "update", "delete"} /\ resp'.kind # "Admitted")
          => /\ bookings' = bookings
             /\ vehicles' = vehicles
             /\ deactivated' = deactivated
             /\ users' = users
             /\ nextId' = nextId
      ]_vars

\* An owner update has just been refused as a conflict while two bookings
\* are stored.
RejectionChangesNothingWitness ==
    /\ resp = Resp("update", "Conflict")
    /\ Cardinality(bookings) >= 2

\* C24: for every vehicle, every candidate interval [s, e) with e > s and
\* every excluded booking id, the owner routes' conflict check and the
\* administrator route's conflict query give the same answer on the stored
\* bookings.
ConflictChecksAgree ==
    \A v \in VehicleIds : \A s \in Times : \A e \in Times :
        \A x \in BookingIds \cup {NoId} :
            e > s =>
                (checkBookingConflict(v, s, e, x)
                    <=> \E b \in bookings : AdminConflictWhere(b, x, v, s, e))

\* C25: no two rows of the User table share an email, in every state reached
\* by interleaving signups at their awaits; a signup whose email belongs to a
\* user is answered with a conflict and creates no row.
EmailsUnique ==
    /\ \A i \in DOMAIN signedUp : \A j \in DOMAIN signedUp :
           i # j => signedUp[i] # signedUp[j]
    /\ \A i \in DOMAIN signedUp : \A u \in users : signedUp[i] # Email(u)

\* A signup has just been refused as a conflict while another signup, which
\* found no user with its email, is about to insert an email that a row
\* created in between already has.
EmailsUniqueWitness ==
    /\ resp = Resp("signup", "Conflict")
    /\ \E k \in Slots : \E i \in DOMAIN signedUp :
           /\ inflight[k].pc = "signup.create"
           /\ inflight[k].user = signedUp[i]

\* C26: an administrator's user delete whose target is the requester is
\* refused and leaves the users and the bookings unchanged; so the only
\* administrator of the table is never deleted.
NoSelfDelete ==
    /\ [](\A u \in Users : IsAdmin(u) => u \in users)
    /\ [][resp'.op = "userDelete" =>
             \A u \in Users :
                 AdminDeleteUser(u, u)
                     => /\ resp'.kind = "SelfDelete"
                        /\ users' = users
                        /\ bookings' = bookings
        ]_vars

\* An administrator's delete of the own account has just been refused while
\* that administrator has a booking stored and the other user is gone.
NoSelfDeleteWitness ==
    /\ resp = Resp("userDelete", "SelfDelete")
    /\ \E b \in bookings : IsAdmin(b.userId)
    /\ \E u \in Users : u \notin users

\* C27: in the response of GET /api/bookings/my every booking of the caller
\* is in exactly one of 'upcoming' (end >= now) and 'past' (end < now), no
\* booking of another user is in either, and a booking is in 'past' exactly
\* when the cleanup run at the same instant would delete it.
MyBookingsPartition ==
    \A u \in Users :
        /\ MyUpcoming(u) \cap MyPast(u) = {}
        /\ MyUpcoming(u) \cup MyPast(u) = {b \in bookings : b.userId = u}
        /\ \A b \in bookings :
               /\ b \in MyUpcoming(u) <=> (b.userId = u /\ b.endTime >= now)
               /\ b \in MyPast(u) <=> (b.userId = u /\ CleanupWhere(b))

\* One user has a booking that ended before the current instant and one that
\* ends exactly at it.
MyBookingsPartitionWitness ==
    \E u \in users :
        /\ MyPast(u) # {}
        /\ \E b \in MyUpcoming(u) : b.endTime = now


\* C28: whenever logout() runs to completion, whether the logout API call
\* succeeded or failed, the stored token is removed, user is null and
\* isAdmin is false. (A page reload drops a suspended logout without
\* completing it; it leaves isLoading true.)
LogoutEndsSession ==
    [][\A c \in Slots :
           (calls[c].pc = "logout" /\ calls'[c].pc = "idle"
                /\ ~auth'.isLoading)
               => /\ auth'.token = NoToken
                  /\ auth'.user = NoUser
                  /\ ~auth'.isAdmin
      ]_vars

\* The logout API call of a client has just failed, and the client has no
\* token, no user and no administrator flag.
LogoutEndsSessionWitness ==
    /\ resp = Resp("logout", "error")
    /\ AllCallsIdle
    /\ ~auth.isLoading
    /\ auth.token = NoToken
    /\ auth.user = NoUser
    /\ ~auth.isAdmin

\* C29: in every reachable state of the client, isAdmin implies that a user
\* is set, however login, signup, refreshUser and logout interleave with the
\* completion of checkAdminStatus; so the guard of the admin page never
\* admits a client without a user.
AdminImpliesUser ==
    /\ auth.isAdmin => auth.user # NoUser
    /\ AdminRoute => auth.user # NoUser


\* C30: the booking form hands onSubmit only a candidate with a vehicle
\* selected, end > start and start >= the instant of the submit; handleSubmit
\* calls onClose only after onSubmit resolved; when onSubmit rejects the
\* modal stays as open as it was with an error set; and isSubmitting is
\* false again after every submit attempt.
SubmitsValidClosesOnSuccess ==
    /\ [](modal.pending =>
              /\ modal.sent.vehicleId # NoVehicle
              /\ DateLt(modal.sent.startTime, modal.sent.endTime)
              /\ DateLte(modal.sent.at, modal.sent.startTime))
    /\ [](~modal.pending => ~modal.isSubmitting)
    /\ [][(modal.pending /\ ~modal'.pending) =>
              /\ ~modal'.isSubmitting
              /\ (modal.isOpen /\ ~modal'.isOpen) => resp'.kind = "ok"
              /\ resp'.kind = "error" =>
                     /\ modal'.isOpen = modal.isOpen
                     /\ modal'.error # NoError
      ]_vars
    /\ [][(~modal.pending /\ modal'.pending) => modal'.isOpen]_vars

====
